---- MODULE Spec2Model ----
(***************************************************************************)
(* The #[async] syntax extension of src/lib.rs: async_attribute rewrites   *)
(* an annotated function item, handle_statements rewrites a statement      *)
(* sequence into callback form and handle_expression descends into the    *)
(* bodies of while loops.  The syntax tree is modelled by records, the    *)
(* three functions by recursive operators, and one expansion of the       *)
(* attribute by a step machine with an explicit call stack.               *)
(***************************************************************************)
EXTENDS Integers, Sequences, FiniteSets, TLC

VARIABLES annotable, pc, stack, ret, errs, result

vars == <<annotable, pc, stack, ret, errs, result>>

(* Bounds of the checked inputs. *)
MaxNodes == 3
MaxArgs == 2
MaxIter == 2

(***************************************************************************)
(* Syntax tree.  An expression is a record; `name` holds the opaque text   *)
(* of the node (the condition of a while, the callee of a call), `stmts`   *)
(* and `tail` the statements and the optional trailing expression of its   *)
(* block, `label` the optional loop label, `args` the call arguments.      *)
(* Options are sequences of length 0 or 1.                                 *)
(***************************************************************************)
MkExpr(kind, name, stmts, tail, label, args) ==
    [kind |-> kind, name |-> name, stmts |-> stmts, tail |-> tail,
     label |-> label, args |-> args]

WhileExpr(cond, stmts, tail, label) == MkExpr("While", cond, stmts, tail, label, <<>>)

CallExpr(func, args) == MkExpr("Call", func, <<>>, <<>>, <<>>, args)

PathExpr(name) == MkExpr("Path", name, <<>>, <<>>, <<>>, <<>>)

LitExpr(name) == MkExpr("Lit", name, <<>>, <<>>, <<>>, <<>>)

BlockExpr(stmts, tail) == MkExpr("Block", "", stmts, tail, <<>>, <<>>)

IfExpr(cond, stmts) == MkExpr("If", cond, stmts, <<>>, <<>>, <<>>)

(* A statement: StmtKind::Decl, Expr, Semi or Mac.  `decl` is the opaque   *)
(* payload of a declaration or macro statement, `expr` the expression of   *)
(* an Expr or Semi statement.                                              *)
MkStmt(kind, decl, expr) == [kind |-> kind, decl |-> decl, expr |-> expr]

(* The name of the synthesized continuation parameter. *)
FinalCallback == "_gen_async_fn_final_callback"

(* cx.stmt_expr(e): a statement rebuilt around the expression e. *)
stmt_expr(e) == MkStmt("Semi", "", <<e>>)

(* quote_stmt!(cx, _gen_async_fn_final_callback({ 1234 })) *)
QuotePlaceholderCallback ==
    MkStmt("Expr", "", <<CallExpr(FinalCallback, <<BlockExpr(<<>>, <<LitExpr("1234")>>)>>)>>)

(* Mutant: the last statement is returned as it is, not handed to the callback. *)
QuoteFinalCallback_bare(stmt) == stmt

(* quote_stmt!(cx, _gen_async_fn_final_callback({$stmt})) *)
QuoteFinalCallback(stmt) ==
    MkStmt("Expr", "", <<CallExpr(FinalCallback, <<BlockExpr(<<stmt>>, <<>>)>>)>>)

(* Mutant: the statements below the declaration follow it in the block, unnested. *)
QuoteDeclBlock_flat(stmt, stmts_inside_cb) ==
    MkStmt("Expr", "", <<BlockExpr(<<stmt>> \o stmts_inside_cb, <<>>)>>)

(* quote_stmt!(cx, { $stmt if (true) { $stmts_inside_cb } }) *)
QuoteDeclBlock(stmt, stmts_inside_cb) ==
    MkStmt("Expr", "", <<BlockExpr(<<stmt>>, <<IfExpr("(true)", stmts_inside_cb)>>)>>)

(* Mutant: the recursion is made on the whole sequence again. *)
stmts_below_all(stmts) == stmts

(* stmts.split_first(): the statements after the first one. *)
stmts_below(stmts) == Tail(stmts)

RECURSIVE handle_statements(_), handle_expression(_)

handle_statements(stmts) ==
    IF stmts = <<>> THEN <<>>
    ELSE LET stmt == Head(stmts)
             below == stmts_below(stmts)
         IN  IF stmt.kind = "Decl"
             THEN LET stmts_inside_cb ==
                          IF below = <<>> THEN <<QuotePlaceholderCallback>>
                          ELSE handle_statements(below)
                  IN  <<QuoteDeclBlock(stmt, stmts_inside_cb)>>
             ELSE LET stmt2 ==
                          IF stmt.kind \in {"Expr", "Semi"}
                          THEN stmt_expr(handle_expression(stmt.expr[1]))
                          ELSE stmt
                  IN  IF below # <<>>
                      THEN <<stmt2>> \o handle_statements(below)
                      ELSE <<QuoteFinalCallback(stmt2)>>

handle_expression(expr) ==
    IF expr.kind = "While"
    THEN WhileExpr(expr.name, handle_statements(expr.stmts), expr.tail, expr.label)
    ELSE IF expr.kind = "Call"
         THEN CallExpr(expr.name, expr.args)
         ELSE expr

(***************************************************************************)
(* Items.  A type is a head with optional type arguments; an argument is   *)
(* a name with a type; FunctionRetTy is None (diverging), Default (no      *)
(* return type written) or Ty(ty).                                         *)
(***************************************************************************)
MkTy(head, targs) == [head |-> head, targs |-> targs]

UnitTy == MkTy("()", <<>>)

MkArg(name, ty) == [name |-> name, ty |-> ty]

MkRetTy(kind, ty) == [kind |-> kind, ty |-> ty]

MkBlock(stmts, expr) == [stmts |-> stmts, expr |-> expr]

(* cx.fn_decl(inputs, output) *)
fn_decl(inputs, output) ==
    [inputs |-> inputs, output |-> MkRetTy("Ty", <<output>>), variadic |-> FALSE]

(* An Annotatable: kind is Item, TraitItem or ImplItem; node is the kind   *)
(* of the item ("Fn" for ItemKind::Fn).                                    *)
MkAnnotatable(kind, ident, attrs, vis, node, dec, quals, generics, block) ==
    [kind |-> kind, ident |-> ident, attrs |-> attrs, vis |-> vis, node |-> node,
     dec |-> dec, quals |-> quals, generics |-> generics, block |-> block]

(* cx.item(span, ident, attrs, node) wrapped in Annotatable::Item; the     *)
(* builder takes no visibility and makes the item private.                 *)
cx_item(ident, attrs, dec, quals, generics, block) ==
    MkAnnotatable("Item", ident, attrs, "Inherited", "Fn", dec, quals, generics, block)

(* annotable.clone().expect_item() returns the item of Annotatable::Item   *)
(* and panics on any other Annotatable.                                    *)
expect_item_ok(a) == a.kind = "Item"

(* if let ItemKind::Fn(..) = item.node *)
IsFn(a) == a.kind = "Item" /\ a.node = "Fn"

(* Mutant: the declared return type is ignored. *)
InnerTy_unit(output) == UnitTy

(* match dec.output { FunctionRetTy::Ty(ty) => ty, _ => quote_ty!(cx, ()) } *)
InnerTy(output) == IF output.kind = "Ty" THEN output.ty[1] ELSE UnitTy

(* quote_arg!(cx, _gen_async_fn_final_callback: &FnOnce($ty)) *)
QuoteCallbackArg(ty) == MkArg(FinalCallback, MkTy("&FnOnce", <<ty>>))

(* Mutant: the callback is put in front of the parameters. *)
PushCallbackArg_front(inputs, ty) == <<QuoteCallbackArg(ty)>> \o inputs

(* let mut inputs = dec.inputs.clone(); inputs.push(..) *)
PushCallbackArg(inputs, ty) == Append(inputs, QuoteCallbackArg(ty))

(* The item async_attribute returns for a function item, given the         *)
(* transformed statements of its body.                                     *)
RebuildFn(item, stmts) ==
    LET block == MkBlock(stmts, item.block.expr)
        ty == InnerTy(item.dec.output)
        inputs == PushCallbackArg(item.dec.inputs, ty)
        dec == fn_decl(inputs, UnitTy)
    IN  cx_item(item.ident, item.attrs, dec, item.quals, item.generics, block)

(***************************************************************************)
(* Inputs.                                                                 *)
(***************************************************************************)
Leaves ==
    { MkStmt("Decl", "x", <<>>),
      MkStmt("Semi", "", <<CallExpr("g", <<>>)>>),
      MkStmt("Expr", "", <<PathExpr("v")>>),
      MkStmt("Mac", "m", <<>>) }

WhileStmts(bodies) ==
    { MkStmt("Expr", "", <<WhileExpr("c", b, <<>>, <<>>)>>) : b \in bodies }
    \cup { MkStmt("Semi", "", <<WhileExpr("d", b, <<CallExpr("t", <<>>)>>, <<"'a">>)>>) : b \in bodies }

RECURSIVE StmtSeqs(_), StmtsOfSize(_)

(* The statements made of exactly n statement nodes. *)
StmtsOfSize(n) ==
    IF n = 1 THEN Leaves \cup WhileStmts({<<>>})
    ELSE WhileStmts(StmtSeqs(n - 1))

(* The statement sequences made of exactly n statement nodes. *)
StmtSeqs(n) ==
    IF n = 0 THEN {<<>>}
    ELSE UNION { { <<s>> \o r : s \in StmtsOfSize(k), r \in StmtSeqs(n - k) } : k \in 1..n }

Bodies == UNION { StmtSeqs(n) : n \in 0..MaxNodes }

SmallBodies == StmtSeqs(0) \cup StmtSeqs(1)

ArgPool == <<MkArg("a", MkTy("u8", <<>>)), MkArg("b", MkTy("Vec", <<MkTy("u8", <<>>)>>)),
             MkArg("c", MkTy("u8", <<>>)), MkArg("d", MkTy("u8", <<>>))>>

ArgSeqs == { SubSeq(ArgPool, 1, IF n <= Len(ArgPool) THEN n ELSE Len(ArgPool)) : n \in 0..MaxArgs }

RetTys == { MkRetTy("Default", <<>>), MkRetTy("None", <<>>), MkRetTy("Ty", <<MkTy("u32", <<>>)>>) }

Tails == { <<>>, <<PathExpr("r")>> }

PlainFn(inputs, output, stmts, tail) ==
    MkAnnotatable("Item", "f", <<>>, "Inherited", "Fn",
                  [inputs |-> inputs, output |-> output, variadic |-> FALSE],
                  "", "", MkBlock(stmts, tail))

RichFn(inputs, output, stmts, tail) ==
    MkAnnotatable("Item", "h", <<"inline">>, "Public", "Fn",
                  [inputs |-> inputs, output |-> output, variadic |-> FALSE],
                  "unsafe", "<T>", MkBlock(stmts, tail))

NoDecl == [inputs |-> <<>>, output |-> MkRetTy("Default", <<>>), variadic |-> FALSE]

FnItems ==
    { PlainFn(<<>>, MkRetTy("Default", <<>>), b, <<>>) : b \in Bodies }
    \cup { PlainFn(i, o, b, t) : i \in ArgSeqs, o \in RetTys, b \in SmallBodies, t \in Tails }
    \cup { RichFn(i, o, b, t) : i \in ArgSeqs, o \in RetTys, b \in SmallBodies, t \in Tails }

OtherItems ==
    { MkAnnotatable("Item", "S", <<"derive">>, "Public", "Struct", NoDecl, "", "", MkBlock(<<>>, <<>>)),
      MkAnnotatable("Item", "K", <<>>, "Inherited", "Const", NoDecl, "", "", MkBlock(<<>>, <<>>)) }

NonItems ==
    { MkAnnotatable("TraitItem", "m", <<>>, "Inherited", "Method", NoDecl, "", "",
                    MkBlock(<<MkStmt("Decl", "x", <<>>)>>, <<>>)),
      MkAnnotatable("ImplItem", "m", <<>>, "Public", "Method", NoDecl, "", "",
                    MkBlock(<<MkStmt("Semi", "", <<CallExpr("g", <<>>)>>)>>, <<>>)) }

Annotatables == FnItems \cup OtherItems \cup NonItems

(***************************************************************************)
(* One expansion of the attribute, step by step.  `stack` holds the        *)
(* active calls of handle_statements ("hs") and handle_expression ("he"),  *)
(* innermost last; `ret` the value the last finished call returned.        *)
(***************************************************************************)
Frame(fn, stmts, expr, at, stmt, depth) ==
    [fn |-> fn, stmts |-> stmts, expr |-> expr, at |-> at, stmt |-> stmt, depth |-> depth]

HsFrame(stmts, depth) == Frame("hs", stmts, <<>>, "entry", <<>>, depth)

HeFrame(expr, depth) == Frame("he", <<>>, <<expr>>, "entry", <<>>, depth)

NoRet == [stmts |-> <<>>, expr |-> <<>>]

RetStmts(stmts) == [stmts |-> stmts, expr |-> <<>>]

RetExpr(expr) == [stmts |-> <<>>, expr |-> <<expr>>]

Top == stack[Len(stack)]

Pop == SubSeq(stack, 1, Len(stack) - 1)

(* Replace the top frame by f and call g. *)
CallFrom(f, g) == Append(Append(Pop, f), g)

Init ==
    /\ annotable \in Annotatables
    /\ pc = "start"
    /\ stack = <<>>
    /\ ret = NoRet
    /\ errs = 0
    /\ result = <<>>

(* line 51: expect_item *)
ExpectItem ==
    /\ pc = "start"
    /\ expect_item_ok(annotable)
    /\ pc' = "item"
    /\ UNCHANGED <<annotable, stack, ret, errs, result>>

ExpectItemPanic ==
    /\ pc = "start"
    /\ ~expect_item_ok(annotable)
    /\ pc' = "panicked"
    /\ UNCHANGED <<annotable, stack, ret, errs, result>>

(* lines 56-59: a function item; call handle_statements on its body *)
MatchFn ==
    /\ pc = "item"
    /\ IsFn(annotable)
    /\ stack' = <<HsFrame(annotable.block.stmts, 0)>>
    /\ pc' = "body"
    /\ UNCHANGED <<annotable, ret, errs, result>>

(* lines 78-81: not a function: one error, the input returned *)
NotFn ==
    /\ pc = "item"
    /\ ~IsFn(annotable)
    /\ errs' = errs + 1
    /\ result' = <<annotable>>
    /\ pc' = "done"
    /\ UNCHANGED <<annotable, stack, ret>>

(* lines 129-131: handle_statements of no statements *)
HsEmpty ==
    /\ pc = "body" /\ stack # <<>>
    /\ Top.fn = "hs" /\ Top.at = "entry" /\ Top.stmts = <<>>
    /\ stack' = Pop
    /\ ret' = RetStmts(<<>>)
    /\ UNCHANGED <<annotable, pc, errs, result>>

(* lines 89-96, 101-107: a declaration with nothing below it *)
HsDeclLast ==
    /\ pc = "body" /\ stack # <<>>
    /\ Top.fn = "hs" /\ Top.at = "entry" /\ Top.stmts # <<>>
    /\ Head(Top.stmts).kind = "Decl"
    /\ stmts_below(Top.stmts) = <<>>
    /\ stack' = Pop
    /\ ret' = RetStmts(<<QuoteDeclBlock(Head(Top.stmts), <<QuotePlaceholderCallback>>)>>)
    /\ UNCHANGED <<annotable, pc, errs, result>>

(* lines 97-99: a declaration with statements below it: recurse on them *)
HsDeclBelow ==
    /\ pc = "body" /\ stack # <<>>
    /\ Top.fn = "hs" /\ Top.at = "entry" /\ Top.stmts # <<>>
    /\ Head(Top.stmts).kind = "Decl"
    /\ stmts_below(Top.stmts) # <<>>
    /\ stack' = CallFrom([Top EXCEPT !.at = "decl_below"],
                         HsFrame(stmts_below(Top.stmts), Top.depth))
    /\ ret' = NoRet
    /\ UNCHANGED <<annotable, pc, errs, result>>

(* lines 101-107: the declaration wrapped with the statements returned *)
HsDeclReturn ==
    /\ pc = "body" /\ stack # <<>>
    /\ Top.fn = "hs" /\ Top.at = "decl_below"
    /\ stack' = Pop
    /\ ret' = RetStmts(<<QuoteDeclBlock(Head(Top.stmts), ret.stmts)>>)
    /\ UNCHANGED <<annotable, pc, errs, result>>

(* lines 112-113: an expression statement: call handle_expression *)
HsExprCall ==
    /\ pc = "body" /\ stack # <<>>
    /\ Top.fn = "hs" /\ Top.at = "entry" /\ Top.stmts # <<>>
    /\ Head(Top.stmts).kind \in {"Expr", "Semi"}
    /\ stack' = CallFrom([Top EXCEPT !.at = "expr"],
                         HeFrame(Head(Top.stmts).expr[1], Top.depth))
    /\ ret' = NoRet
    /\ UNCHANGED <<annotable, pc, errs, result>>

(* lines 112-113: the statement rebuilt around the expression returned *)
HsExprReturn ==
    /\ pc = "body" /\ stack # <<>>
    /\ Top.fn = "hs" /\ Top.at = "expr"
    /\ stack' = Append(Pop, [Top EXCEPT !.at = "stmt", !.stmt = <<stmt_expr(ret.expr[1])>>])
    /\ ret' = NoRet
    /\ UNCHANGED <<annotable, pc, errs, result>>

(* Mutant: any other statement is rebuilt as an expression statement. *)
HsOther_rebuilt ==
    /\ pc = "body" /\ stack # <<>>
    /\ Top.fn = "hs" /\ Top.at = "entry" /\ Top.stmts # <<>>
    /\ Head(Top.stmts).kind \notin {"Decl", "Expr", "Semi"}
    /\ stack' = Append(Pop, [Top EXCEPT !.at = "stmt",
                                        !.stmt = <<MkStmt("Semi", Head(Top.stmts).decl, <<>>)>>])
    /\ UNCHANGED <<annotable, pc, ret, errs, result>>

(* line 114: any other statement is cloned *)
HsOther ==
    /\ pc = "body" /\ stack # <<>>
    /\ Top.fn = "hs" /\ Top.at = "entry" /\ Top.stmts # <<>>
    /\ Head(Top.stmts).kind \notin {"Decl", "Expr", "Semi"}
    /\ stack' = Append(Pop, [Top EXCEPT !.at = "stmt", !.stmt = <<Head(Top.stmts)>>])
    /\ UNCHANGED <<annotable, pc, ret, errs, result>>

(* lines 119-122: statements below: recurse on them *)
HsStmtBelow ==
    /\ pc = "body" /\ stack # <<>>
    /\ Top.fn = "hs" /\ Top.at = "stmt"
    /\ stmts_below(Top.stmts) # <<>>
    /\ stack' = CallFrom([Top EXCEPT !.at = "stmt_below"],
                         HsFrame(stmts_below(Top.stmts), Top.depth))
    /\ UNCHANGED <<annotable, pc, ret, errs, result>>

(* Mutant: the statement is put after the statements returned. *)
HsStmtReturn_swapped ==
    /\ pc = "body" /\ stack # <<>>
    /\ Top.fn = "hs" /\ Top.at = "stmt_below"
    /\ stack' = Pop
    /\ ret' = RetStmts(ret.stmts \o Top.stmt)
    /\ UNCHANGED <<annotable, pc, errs, result>>

(* lines 120-124: the statement followed by the statements returned *)
HsStmtReturn ==
    /\ pc = "body" /\ stack # <<>>
    /\ Top.fn = "hs" /\ Top.at = "stmt_below"
    /\ stack' = Pop
    /\ ret' = RetStmts(Top.stmt \o ret.stmts)
    /\ UNCHANGED <<annotable, pc, errs, result>>

(* line 126: the last statement becomes the argument of the callback *)
HsStmtLast ==
    /\ pc = "body" /\ stack # <<>>
    /\ Top.fn = "hs" /\ Top.at = "stmt"
    /\ stmts_below(Top.stmts) = <<>>
    /\ stack' = Pop
    /\ ret' = RetStmts(<<QuoteFinalCallback(Top.stmt[1])>>)
    /\ UNCHANGED <<annotable, pc, errs, result>>

(* lines 136-139: a while loop: call handle_statements on its body *)
HeWhileCall ==
    /\ pc = "body" /\ stack # <<>>
    /\ Top.fn = "he" /\ Top.at = "entry"
    /\ Top.expr[1].kind = "While"
    /\ stack' = CallFrom([Top EXCEPT !.at = "while_body"],
                         HsFrame(Top.expr[1].stmts, Top.depth + 1))
    /\ UNCHANGED <<annotable, pc, ret, errs, result>>

(* Mutant: the loop is rebuilt with its original body. *)
HeWhileReturn_unhandled ==
    /\ pc = "body" /\ stack # <<>>
    /\ Top.fn = "he" /\ Top.at = "while_body"
    /\ stack' = Pop
    /\ ret' = RetExpr(WhileExpr(Top.expr[1].name, Top.expr[1].stmts, Top.expr[1].tail,
                                Top.expr[1].label))
    /\ UNCHANGED <<annotable, pc, errs, result>>

(* lines 137-141, 153: the loop rebuilt with the statements returned *)
HeWhileReturn ==
    /\ pc = "body" /\ stack # <<>>
    /\ Top.fn = "he" /\ Top.at = "while_body"
    /\ stack' = Pop
    /\ ret' = RetExpr(WhileExpr(Top.expr[1].name, ret.stmts, Top.expr[1].tail,
                                Top.expr[1].label))
    /\ UNCHANGED <<annotable, pc, errs, result>>

(* lines 143-150, 153: a call is rebuilt, any other expression cloned *)
HeOther ==
    /\ pc = "body" /\ stack # <<>>
    /\ Top.fn = "he" /\ Top.at = "entry"
    /\ Top.expr[1].kind # "While"
    /\ stack' = Pop
    /\ ret' = RetExpr(IF Top.expr[1].kind = "Call"
                      THEN CallExpr(Top.expr[1].name, Top.expr[1].args)
                      ELSE Top.expr[1])
    /\ UNCHANGED <<annotable, pc, errs, result>>

(* lines 60-77: the function item rebuilt around the transformed body *)
Rebuild ==
    /\ pc = "body" /\ stack = <<>>
    /\ result' = <<RebuildFn(annotable, ret.stmts)>>
    /\ pc' = "done"
    /\ UNCHANGED <<annotable, stack, ret, errs>>

Next ==
    \/ ExpectItem \/ ExpectItemPanic \/ MatchFn \/ NotFn
    \/ HsEmpty \/ HsDeclLast \/ HsDeclBelow \/ HsDeclReturn
    \/ HsExprCall \/ HsExprReturn \/ HsOther
    \/ HsStmtBelow \/ HsStmtReturn \/ HsStmtLast
    \/ HeWhileCall \/ HeWhileReturn \/ HeOther
    \/ Rebuild

Spec == Init /\ [][Next]_vars

(* The expansion is one sequential call: a step that can be taken is taken. *)
FairSpec == Spec /\ WF_vars(Next)

Finished == pc \in {"done", "panicked"}

(* The machine computes what the recursive operators compute. *)
MachineAgrees ==
    (pc = "done" /\ IsFn(annotable)) =>
        result = <<RebuildFn(annotable, handle_statements(annotable.block.stmts))>>

(***************************************************************************)
(* Reading the generated code.                                             *)
(***************************************************************************)
IsExprStmt(s) == s.kind \in {"Expr", "Semi"}

(* s is a call of the continuation. *)
IsCallbackCall(s) ==
    /\ s.kind = "Expr"
    /\ s.expr[1].kind = "Call"
    /\ s.expr[1].name = FinalCallback
    /\ Len(s.expr[1].args) = 1
    /\ s.expr[1].args[1].kind = "Block"

(* s is a block ending in an always-true conditional. *)
IsDeclBlock(s) ==
    /\ s.kind = "Expr"
    /\ s.expr[1].kind = "Block"
    /\ Len(s.expr[1].tail) = 1
    /\ s.expr[1].tail[1].kind = "If"
    /\ s.expr[1].tail[1].name = "(true)"
    /\ s.expr[1].tail[1].tail = <<>>

(* s is the call of the continuation with the placeholder literal. *)
IsPlaceholderCall(s) ==
    /\ IsCallbackCall(s)
    /\ s.expr[1].args[1].stmts = <<>>
    /\ Len(s.expr[1].args[1].tail) = 1
    /\ s.expr[1].args[1].tail[1].kind = "Lit"
    /\ s.expr[1].args[1].tail[1].name = "1234"

(* s is the call of the continuation on a block holding the statement st. *)
IsCallbackOf(s, st) ==
    /\ IsCallbackCall(s)
    /\ s.expr[1].args[1].stmts = <<st>>
    /\ s.expr[1].args[1].tail = <<>>

RECURSIVE Originals(_), OrigStmt(_)

(* The original statements of a sequence, in order, as tokens; the block,  *)
(* conditional and continuation-call wrappers are looked through.          *)
OrigStmt(s) ==
    IF ~IsExprStmt(s) THEN <<s.decl>>
    ELSE IF IsDeclBlock(s)
         THEN Originals(s.expr[1].stmts) \o Originals(s.expr[1].tail[1].stmts)
    ELSE IF IsCallbackCall(s) THEN Originals(s.expr[1].args[1].stmts)
    ELSE IF s.expr[1].kind = "While"
         THEN <<"while", s.expr[1].name, "{">> \o Originals(s.expr[1].stmts) \o <<"}">>
    ELSE <<s.expr[1].name>>

Originals(stmts) ==
    IF stmts = <<>> THEN <<>> ELSE OrigStmt(Head(stmts)) \o Originals(Tail(stmts))

(* Control-flow paths of generated code: the sequence of events of one     *)
(* run, "cb" an invocation of the continuation, "ev" any other evaluation  *)
(* (a declaration, a macro, a call, a loop test).  A loop runs at most     *)
(* MaxIter times.                                                          *)
Cat(A, B) == { a \o b : a \in A, b \in B }

RECURSIVE SeqPaths(_), ExprPaths(_), ArgPaths(_), LoopPaths(_, _)

LoopPaths(body, n) ==
    IF n = 0 THEN {<<"ev">>}
    ELSE {<<"ev">>} \cup Cat(Cat({<<"ev">>}, body), LoopPaths(body, n - 1))

BlockPaths(e) == Cat(SeqPaths(e.stmts), IF e.tail = <<>> THEN {<<>>} ELSE ExprPaths(e.tail[1]))

ExprPaths(e) ==
    CASE e.kind = "Call" ->
             Cat(ArgPaths(e.args), {<<IF e.name = FinalCallback THEN "cb" ELSE "ev">>})
      [] e.kind \in {"Block", "If"} -> BlockPaths(e)
      [] e.kind = "While" -> LoopPaths(BlockPaths(e), MaxIter)
      [] OTHER -> {<<"ev">>}

ArgPaths(args) ==
    IF args = <<>> THEN {<<>>} ELSE Cat(ExprPaths(Head(args)), ArgPaths(Tail(args)))

SeqPaths(stmts) ==
    IF stmts = <<>> THEN {<<>>}
    ELSE Cat(IF IsExprStmt(Head(stmts)) THEN ExprPaths(Head(stmts).expr[1]) ELSE {<<"ev">>},
             SeqPaths(Tail(stmts)))

CallbackCount(p) == Cardinality({ i \in DOMAIN p : p[i] = "cb" })

EndsWithOneCallback(p) == p # <<>> /\ p[Len(p)] = "cb" /\ CallbackCount(p) = 1

RECURSIVE CalledSeqs(_), Size(_)

(* The statement sequences handle_statements is called on for a body: its  *)
(* suffixes and, recursively, those of the loop bodies in it.              *)
CalledSeqs(stmts) ==
    { SubSeq(stmts, i, Len(stmts)) : i \in 1..(Len(stmts) + 1) }
    \cup UNION { CalledSeqs(stmts[i].expr[1].stmts) :
                 i \in { j \in DOMAIN stmts :
                         IsExprStmt(stmts[j]) /\ stmts[j].expr[1].kind = "While" } }

(* The number of statement nodes of a sequence. *)
Size(stmts) ==
    IF stmts = <<>> THEN 0
    ELSE 1 + (IF IsExprStmt(Head(stmts)) THEN Size(Head(stmts).expr[1].stmts) ELSE 0)
           + Size(Tail(stmts))

Done == pc = "done" /\ IsFn(annotable)

(* A call of handle_statements or handle_expression returns in this step. *)
Returns(fn) == stack # <<>> /\ Top.fn = fn /\ Len(stack') < Len(stack)

(***************************************************************************)
(* Claims.                                                                 *)
(***************************************************************************)

(* C1: for every input that is not a function item, async_attribute        *)
(* reports exactly one diagnostic and returns the input unchanged without  *)
(* aborting, whatever kind of annotated node it is given.                  *)
C1_NonFunctionReported ==
    (Finished /\ ~IsFn(annotable)) =>
        (pc = "done" /\ errs = 1 /\ result = <<annotable>>)

(* C2: for every non-empty statement sequence (the body or a loop body),   *)
(* every control-flow path through the transformed sequence ends at an     *)
(* invocation of the continuation and invokes it exactly once.             *)
C2_TailContinuationOnce ==
    Done =>
        /\ annotable.block.stmts # <<>> =>
               \A p \in SeqPaths(result[1].block.stmts) : EndsWithOneCallback(p)
        /\ \A s \in CalledSeqs(annotable.block.stmts) :
               s # <<>> => \A p \in SeqPaths(handle_statements(s)) : EndsWithOneCallback(p)

(* C3: the original statements, wrappers ignored, occur in the output      *)
(* exactly once and in their original order, loop bodies included.         *)
C3_StatementsConserved ==
    Done => Originals(result[1].block.stmts) = Originals(annotable.block.stmts)

C3_Witness ==
    /\ Done
    /\ Len(annotable.block.stmts) >= 2
    /\ \E i \in DOMAIN annotable.block.stmts :
           /\ IsExprStmt(annotable.block.stmts[i])
           /\ annotable.block.stmts[i].expr[1].kind = "While"
           /\ annotable.block.stmts[i].expr[1].stmts # <<>>
    /\ result[1].block.stmts # annotable.block.stmts

(* C4: the parameter list of the transformed function is the original     *)
(* list, in order, with the continuation parameter appended at the end.    *)
C4_ArityPlusOne ==
    Done =>
        LET old == annotable.dec.inputs
            new == result[1].dec.inputs
        IN  /\ Len(new) = Len(old) + 1
            /\ SubSeq(new, 1, Len(old)) = old
            /\ new[Len(new)].name = FinalCallback

C4_Witness == Done /\ Len(annotable.dec.inputs) >= 2 /\ Len(result[1].dec.inputs) >= 3

(* C5: handle_expression of a while loop returns a loop with the same      *)
(* condition, label and body tail expression whose body statements are     *)
(* handle_statements of the original body statements.                      *)
C5_LoopBodyTransformed ==
    [][(Returns("he") /\ Top.expr[1].kind = "While") =>
           /\ Len(ret'.expr) = 1
           /\ ret'.expr[1].kind = "While"
           /\ ret'.expr[1].name = Top.expr[1].name
           /\ ret'.expr[1].label = Top.expr[1].label
           /\ ret'.expr[1].tail = Top.expr[1].tail
           /\ ret'.expr[1].stmts = handle_statements(Top.expr[1].stmts)]_vars

C5_Witness ==
    /\ pc = "body"
    /\ Len(ret.expr) = 1
    /\ ret.expr[1].kind = "While"
    /\ ret.expr[1].label # <<>>
    /\ ret.expr[1].tail # <<>>
    /\ Len(ret.expr[1].stmts) = 1
    /\ IsDeclBlock(ret.expr[1].stmts[1])

(* C6: the transformed function returns unit, the continuation parameter   *)
(* is a callable over the original return type (unit when none was         *)
(* declared), and ident, attributes, generics and body tail are kept.      *)
C6_SignatureRewritten ==
    Done =>
        LET old == annotable
            new == result[1]
            T == IF old.dec.output.kind = "Ty" THEN old.dec.output.ty[1]
                 ELSE [head |-> "()", targs |-> <<>>]
        IN  /\ new.dec.output = [kind |-> "Ty", ty |-> <<[head |-> "()", targs |-> <<>>]>>]
            /\ new.dec.inputs[Len(new.dec.inputs)].ty = [head |-> "&FnOnce", targs |-> <<T>>]
            /\ new.ident = old.ident
            /\ new.attrs = old.attrs
            /\ new.generics = old.generics
            /\ new.block.expr = old.block.expr

C6_Witness ==
    /\ Done
    /\ annotable.dec.output.kind = "Ty"
    /\ annotable.generics # ""
    /\ annotable.attrs # <<>>
    /\ annotable.block.expr # <<>>
    /\ result[1].dec.inputs[Len(result[1].dec.inputs)].ty.targs = annotable.dec.output.ty

(* C7: a sequence that starts with a binding becomes one statement: the    *)
(* binding followed by an always-true conditional holding the inner        *)
(* sequence, which is handle_statements of the rest, or the placeholder    *)
(* call of the continuation when there is no rest.                         *)
C7_BindingNested ==
    [][(Returns("hs") /\ Top.stmts # <<>> /\ Head(Top.stmts).kind = "Decl") =>
           /\ Len(ret'.stmts) = 1
           /\ IsDeclBlock(ret'.stmts[1])
           /\ ret'.stmts[1].expr[1].stmts = <<Head(Top.stmts)>>
           /\ LET inner == ret'.stmts[1].expr[1].tail[1].stmts
              IN  IF Tail(Top.stmts) = <<>>
                  THEN Len(inner) = 1 /\ IsPlaceholderCall(inner[1])
                  ELSE inner = handle_statements(Tail(Top.stmts))]_vars

C7_Witness ==
    /\ pc = "body"
    /\ Len(ret.stmts) = 1
    /\ IsDeclBlock(ret.stmts[1])
    /\ ret.stmts[1].expr[1].stmts[1].kind = "Decl"
    /\ Len(ret.stmts[1].expr[1].tail[1].stmts) = 2

C9_OtherStatementBare ==
    [][(Returns("hs") /\ Top.stmts # <<>>
          /\ Head(Top.stmts).kind \notin {"Decl", "Expr", "Semi"}) =>
           /\ ret'.stmts # <<>>
           /\ ret'.stmts[1] = Head(Top.stmts)
           /\ errs' = 0]_vars

(* C9, amended: such a statement comes out as a clone of itself, unwrapped *)
(* and followed by handle_statements of the rest, at every position but    *)
(* the last; as the last statement its clone is wrapped as the argument of *)
(* the one call of the continuation.  No diagnostic is emitted.            *)
C9_OtherStatementCloned ==
    [][(Returns("hs") /\ Top.stmts # <<>>
          /\ Head(Top.stmts).kind \notin {"Decl", "Expr", "Semi"}) =>
           /\ errs' = 0
           /\ IF Tail(Top.stmts) # <<>>
              THEN /\ ret'.stmts # <<>>
                   /\ ret'.stmts[1] = Head(Top.stmts)
                   /\ Tail(ret'.stmts) = handle_statements(Tail(Top.stmts))
              ELSE /\ Len(ret'.stmts) = 1
                   /\ IsCallbackOf(ret'.stmts[1], Head(Top.stmts))]_vars

C9_Witness ==
    /\ pc = "body"
    /\ errs = 0
    /\ Len(ret.stmts) = 1
    /\ IsCallbackCall(ret.stmts[1])
    /\ Len(ret.stmts[1].expr[1].args[1].stmts) = 1
    /\ ret.stmts[1].expr[1].args[1].stmts[1].kind = "Mac"

(* The size of the argument of a call, handle_statements above             *)
(* handle_expression at equal size.                                        *)
Measure(f) == IF f.fn = "hs" THEN 2 * Size(f.stmts) + 1 ELSE 2 * Size(<<stmt_expr(f.expr[1])>>)

(* A call made in this step is made on the remaining statements, on the    *)
(* expression of the first statement, or on the body of a loop one level   *)
(* deeper, and its argument is smaller than the caller's.                  *)
CallShrinks ==
    (stack # <<>> /\ Len(stack') > Len(stack)) =>
        LET caller == Top
            callee == stack'[Len(stack')]
        IN  /\ Len(stack') = Len(stack) + 1
            /\ Measure(callee) < Measure(caller)
            /\ callee.fn = "hs" =>
                   \/ /\ caller.fn = "hs"
                      /\ callee.stmts = Tail(caller.stmts)
                      /\ Len(callee.stmts) < Len(caller.stmts)
                      /\ callee.depth = caller.depth
                   \/ /\ caller.fn = "he"
                      /\ caller.expr[1].kind = "While"
                      /\ callee.stmts = caller.expr[1].stmts
                      /\ callee.depth = caller.depth + 1
            /\ callee.fn = "he" =>
                   /\ caller.fn = "hs"
                   /\ callee.expr = Head(caller.stmts).expr
                   /\ callee.depth = caller.depth

(* C10: the recursion terminates on every input; each recursive call of    *)
(* handle_statements is on the strictly shorter rest or, through           *)
(* handle_expression, on a loop body one level deeper; and the result is   *)
(* the one value the input determines.                                     *)
C10_Terminates ==
    /\ <>Finished
    /\ [][CallShrinks]_vars
    /\ []MachineAgrees

C10_Witness ==
    /\ Done
    /\ \E i \in DOMAIN annotable.block.stmts :
           /\ IsExprStmt(annotable.block.stmts[i])
           /\ annotable.block.stmts[i].expr[1].kind = "While"
           /\ \E j \in DOMAIN annotable.block.stmts[i].expr[1].stmts :
                  /\ IsExprStmt(annotable.block.stmts[i].expr[1].stmts[j])
                  /\ annotable.block.stmts[i].expr[1].stmts[j].expr[1].kind = "While"
    /\ result[1].block.stmts = handle_statements(annotable.block.stmts)

====
